---------------------------- MODULE Spec2Model ----------------------------
(***************************************************************************)
(* Model of the "tears" advisory tool: the Trust and Mood enumerations     *)
(* (crate/tears/src/trust.rs, mood.rs), the suggestion table and the two   *)
(* selection cells with their input handlers (webapp/src/app.rs).          *)
(***************************************************************************)
EXTENDS Integers, Sequences, FiniteSets, TLC

(***************************************************************************)
(* Bounds of the model.                                                    *)
(***************************************************************************)
\* number of HomePage instances (sessions) alive at the same time
NumSessions == 2
\* number of events since construction that the event log records exactly
MaxLog == 3
\* largest value of a u8 (the argument type of Mood::try_from)
MaxU8 == 255

Sessions == 1..NumSessions

(***************************************************************************)
(* Option<T> and Result<T, ()>.                                            *)
(***************************************************************************)
None == <<>>
Some(v) == <<v>>
is_some(o) == o # None
unwrap(o) == o[1]

Ok(v) == <<"Ok", v>>
Err == <<"Err">>

\* Result::ok
ok(r) == IF r[1] = "Ok" THEN Some(r[2]) ELSE None

\* Option::zip
zip(a, b) == IF is_some(a) /\ is_some(b) THEN Some(<<unwrap(a), unwrap(b)>>) ELSE None

(***************************************************************************)
(* enum Trust                                                              *)
(***************************************************************************)
Trust_Absent == "Trust::Absent"
Trust_Present == "Trust::Present"

\* Trust::iter, in declaration order
Trust_iter == <<Trust_Absent, Trust_Present>>

Trust == {Trust_iter[i] : i \in 1..Len(Trust_iter)}

\* impl Display for Trust
Trust_fmt(t) ==
    CASE t = Trust_Absent -> "Absent"
      [] t = Trust_Present -> "Present"

\* variant: the match ignores the case of the text
Trust_from_str_nocase(s) ==
    CASE s \in {"Absent", "absent", "ABSENT"} -> Ok(Trust_Absent)
      [] s \in {"Present", "present", "PRESENT"} -> Ok(Trust_Present)
      [] OTHER -> Err

\* impl FromStr for Trust
Trust_from_str(s) ==
    CASE s = "Absent" -> Ok(Trust_Absent)
      [] s = "Present" -> Ok(Trust_Present)
      [] OTHER -> Err

(***************************************************************************)
(* enum Mood                                                               *)
(***************************************************************************)
Mood_01_Anguished == "Mood::_01_Anguished"
Mood_02_Closed == "Mood::_02_Closed"
Mood_03_Cautious == "Mood::_03_Cautious"
Mood_04_Unsettled == "Mood::_04_Unsettled"
Mood_05_Calm == "Mood::_05_Calm"
Mood_06_Hopeful == "Mood::_06_Hopeful"

\* Mood::iter, in declaration order
Mood_iter ==
    <<Mood_01_Anguished, Mood_02_Closed, Mood_03_Cautious,
      Mood_04_Unsettled, Mood_05_Calm, Mood_06_Hopeful>>

Mood == {Mood_iter[i] : i \in 1..Len(Mood_iter)}

\* Mood::rank
Mood_rank(m) ==
    CASE m = Mood_01_Anguished -> 1
      [] m = Mood_02_Closed -> 2
      [] m = Mood_03_Cautious -> 3
      [] m = Mood_04_Unsettled -> 4
      [] m = Mood_05_Calm -> 5
      [] m = Mood_06_Hopeful -> 6

\* variant: the ranks are taken to start at 0
Mood_try_from_zero_based(value) ==
    CASE value = 0 -> Ok(Mood_01_Anguished)
      [] value = 1 -> Ok(Mood_02_Closed)
      [] value = 2 -> Ok(Mood_03_Cautious)
      [] value = 3 -> Ok(Mood_04_Unsettled)
      [] value = 4 -> Ok(Mood_05_Calm)
      [] value = 5 -> Ok(Mood_06_Hopeful)
      [] OTHER -> Err

\* impl TryFrom<u8> for Mood
Mood_try_from(value) ==
    CASE value = 1 -> Ok(Mood_01_Anguished)
      [] value = 2 -> Ok(Mood_02_Closed)
      [] value = 3 -> Ok(Mood_03_Cautious)
      [] value = 4 -> Ok(Mood_04_Unsettled)
      [] value = 5 -> Ok(Mood_05_Calm)
      [] value = 6 -> Ok(Mood_06_Hopeful)
      [] OTHER -> Err

\* impl Display for Mood
Mood_fmt(m) ==
    CASE m = Mood_01_Anguished -> "Anguished"
      [] m = Mood_02_Closed -> "Closed"
      [] m = Mood_03_Cautious -> "Cautious"
      [] m = Mood_04_Unsettled -> "Unsettled"
      [] m = Mood_05_Calm -> "Calm"
      [] m = Mood_06_Hopeful -> "Hopeful"

\* variant: the arm of "Hopeful" repeats the value of the arm above it
Mood_from_str_repeated_arm(s) ==
    CASE s = "Anguished" -> Ok(Mood_01_Anguished)
      [] s = "Closed" -> Ok(Mood_02_Closed)
      [] s = "Cautious" -> Ok(Mood_03_Cautious)
      [] s = "Unsettled" -> Ok(Mood_04_Unsettled)
      [] s = "Calm" -> Ok(Mood_05_Calm)
      [] s = "Hopeful" -> Ok(Mood_05_Calm)
      [] OTHER -> Err

\* impl FromStr for Mood
Mood_from_str(s) ==
    CASE s = "Anguished" -> Ok(Mood_01_Anguished)
      [] s = "Closed" -> Ok(Mood_02_Closed)
      [] s = "Cautious" -> Ok(Mood_03_Cautious)
      [] s = "Unsettled" -> Ok(Mood_04_Unsettled)
      [] s = "Calm" -> Ok(Mood_05_Calm)
      [] s = "Hopeful" -> Ok(Mood_06_Hopeful)
      [] OTHER -> Err

(***************************************************************************)
(* Metadata of the enumeration values.                                     *)
(***************************************************************************)
\* Trust::description
Trust_description(t) ==
    CASE t = Trust_Absent -> "The person has not initiated a conversation with you recently."
      [] t = Trust_Present -> "The person has initiated a conversation with you recently, with no obligation."

\* Mood::symptoms
Mood_symptoms(m) ==
    CASE m = Mood_01_Anguished -> "Unresponsiveness to any interaction. Outbursts, self-harm."
      [] m = Mood_02_Closed -> "Silence, eyes stare blankly. Little movement."
      [] m = Mood_03_Cautious -> "One word answers, eyes assessing every detail."
      [] m = Mood_04_Unsettled -> "Asks for justification / to see evidence."
      [] m = Mood_05_Calm -> "No sad symptoms, smile takes conscious effort."
      [] m = Mood_06_Hopeful -> "Smiles subconciously."

\* Mood::summary
Mood_summary(m) ==
    CASE m = Mood_01_Anguished -> "The person believes that to live is to suffer."
      [] m = Mood_02_Closed -> "The person believes that trust no longer exists."
      [] m = Mood_03_Cautious -> "The person only trusts people who know how to empathize."
      [] m = Mood_04_Unsettled -> "The person is suspicious of people."
      [] m = Mood_05_Calm -> "The person believes life is okay."
      [] m = Mood_06_Hopeful -> "The person believes there is good in life."

\* Mood::description
Mood_description(m) ==
    CASE m = Mood_01_Anguished -> "Being awake is already experienced as emotional pain, so every stimulus is overwhelming."
      [] m = Mood_02_Closed -> "No promise of \"better\" gets through, usually because past attempts at improvement have ended in negative experiences. i.e. Don't make things worse"
      [] m = Mood_03_Cautious -> "The emotions are in a state that the person will hate doing anything an untrusted person says."
      [] m = Mood_04_Unsettled -> "Trust has been broken, but the person is willing to try and see if it can be mended."
      [] m = Mood_05_Calm -> "There is little / no bias towards things being positive or negative."
      [] m = Mood_06_Hopeful -> "The person believes goodness will happen when one works towards it."

(***************************************************************************)
(* struct Suggestion and the table of suggestions_map().                   *)
(***************************************************************************)
Suggestion(a, d) == [action |-> a, description |-> d]

\* HashMap::new / HashMap::insert / HashMap::get; a map is a function on
\* the set of its keys, insert replaces the value of a key already present
HashMap_new == <<>>
HashMap_insert(map, k, v) ==
    [x \in (DOMAIN map) \cup {k} |-> IF x = k THEN v ELSE map[x]]
HashMap_get(map, k) == IF k \in DOMAIN map THEN Some(map[k]) ELSE None

\* the insert calls of suggestions_map, in program order
suggestions_inserts ==
    << <<  <<Trust_Absent, Mood_01_Anguished>>,
           Suggestion("Stay away",
             "As a \"stranger\", your presence pressurizes the person, and may aggravate them, even when your motive is pure.\n\nIt may be best to find someone whom they already trust.") >>,
       <<  <<Trust_Absent, Mood_02_Closed>>,
           Suggestion("Stay away",
             "Leave a gift if you must (e.g. chocolate), but your presence pressurizes the person.\n\nIf they accept the gift in your  absence, then that may be the beginning of trust.") >>,
       <<  <<Trust_Absent, Mood_03_Cautious>>,
           Suggestion("Occasionally ask if they want something",
             "If you are sure the person wants something (that isn't harmful), ask \"do you want ____\"?\n\nMake sure the conversation is paced such that they are able to handle it.\n\nDon't ask why, don't require an answer -- provide a way \"out\" (e.g. \"you don't have to answer\"). Asking such questions is perceived as \"justify yourself\", and may cause them to hate you (which they may not vocalize).") >>,
       <<  <<Trust_Absent, Mood_04_Unsettled>>,
           Suggestion("Ask, \"would you like to say anything?\", then wait.",
             "Just listen, don't problem solve -- you haven't established trust with the person to do so.\n\nAt this stage, you may have some rational conversation, but nothing that would introduce too much emotional pressure.\n\nBe ready to leave them alone if that is what they want (they may not say it).") >>,
       <<  <<Trust_Absent, Mood_05_Calm>>,
           Suggestion("Be calm / hopeful.",
             "Find some gentle fun -- the person is ready to explore.\n\nBe ready to leave them alone if that is what they want (they may not say it).") >>,
       <<  <<Trust_Absent, Mood_06_Hopeful>>,
           Suggestion("Enjoy yourselves.",
             "Make new happy memories -- the person needs them.\n\nThis is your chance to help them believe life can be good.") >>,
       <<  <<Trust_Present, Mood_01_Anguished>>,
           Suggestion("Be fully present with them",
             "Simply sit quietly with them and allow them to grieve.\n\nAny more than that may overwhelm the person.") >>,
       <<  <<Trust_Present, Mood_02_Closed>>,
           Suggestion("Remain at a small distance",
             "Leave a gift if you have one, to show that they are still someone you care for; but allow a little distance -- your presence may feel like pressure to the person in the moment.\n\nDistance allows them to settle, proximity allows them to feel cared for.") >>,
       <<  <<Trust_Present, Mood_03_Cautious>>,
           Suggestion("Occasionally ask if they want something",
             "If you are sure the person wants something (that isn't harmful), ask \"do you want ____\"?\n\nMake sure the conversation is paced such that they are able to handle it.\n\nDon't ask why, don't require an answer -- provide a way \"out\" (e.g. \"you don't have to answer\"). Asking such questions is perceived as \"justify yourself\", and may cause them to hate you (which they may not vocalize).") >>,
       <<  <<Trust_Present, Mood_04_Unsettled>>,
           Suggestion("Ask, \"would you like to say anything?\", then wait.",
             "Listen, and if it feels right you may ask, \"Would you like some help with it?\" (if you are able to help).\n\nAt this stage, you may have some rational conversation, but nothing that would introduce too much emotional pressure.\n") >>,
       <<  <<Trust_Present, Mood_05_Calm>>,
           Suggestion("Be calm / hopeful.",
             "Find some gentle fun -- the person is ready to explore.") >>,
       <<  <<Trust_Present, Mood_06_Hopeful>>,
           Suggestion("Enjoy yourselves.",
             "Make new happy memories -- the person needs them.\n\nHelp them remember life can be good.") >>
    >>

RECURSIVE insert_all(_, _, _)
insert_all(map, inserts, i) ==
    IF i > Len(inserts) THEN map
    ELSE insert_all(HashMap_insert(map, inserts[i][1], inserts[i][2]), inserts, i + 1)

\* variant: the first insert is missing
suggestions_map_missing_entry == insert_all(HashMap_new, suggestions_inserts, 2)

\* fn suggestions_map() -> HashMap<(Trust, Mood), Suggestion>
suggestions_map == insert_all(HashMap_new, suggestions_inserts, 1)


(***************************************************************************)
(* State.                                                                  *)
(*   trust[s], mood[s]  the two RwSignal cells of HomePage instance s      *)
(*   log                the events handled since construction, while they  *)
(*                      are at most MaxLog events of the Observed session; *)
(*                      Overflow afterwards                                *)
(*   call               the last direct call of an enumeration function    *)
(***************************************************************************)
VARIABLES trust, mood, log, call

vars == <<trust, mood, log, call>>

\* let suggestions = suggestions_map();
suggestions == suggestions_map

suggestions_get(k) == HashMap_get(suggestions, k)

\* variant: an unset mood is read as the first mood instead of ending the lookup
suggestion_default_mood(s) ==
    LET pair == zip(trust[s], IF mood[s] = None THEN Some(Mood_01_Anguished) ELSE mood[s])
    IN  IF is_some(pair) THEN suggestions_get(unwrap(pair)) ELSE None

\* variant: the derived value is dropped when an event repeats the event before it
suggestion_dropped_on_repeat(s) ==
    LET pair == zip(trust[s], mood[s])
    IN  IF Len(log) >= 2 /\ log[Len(log)] = log[Len(log) - 1] THEN None
        ELSE IF is_some(pair) THEN suggestions_get(unwrap(pair)) ELSE None

\* the derived signal `suggestion` of HomePage instance s
\* trust.zip(mood).and_then(|(trust, mood)| suggestions.get(&(trust, mood))).cloned()
suggestion(s) ==
    LET pair == zip(trust[s], mood[s])
    IN  IF is_some(pair) THEN suggestions_get(unwrap(pair)) ELSE None

(***************************************************************************)
(* Events.  event_target_value(&ev) of a radio input is the value property *)
(* of the radio, trust_variant.to_string() / mood_variant.to_string(); an  *)
(* input event built by hand may carry any other text.                     *)
(***************************************************************************)
trust_radio_values == {Trust_fmt(Trust_iter[i]) : i \in 1..Len(Trust_iter)}
mood_radio_values == {Mood_fmt(Mood_iter[i]) : i \in 1..Len(Mood_iter)}

OtherTrustTexts == {"", "present"}
OtherMoodTexts == {"", "hopeful"}

TrustEventTexts == trust_radio_values \cup OtherTrustTexts
MoodEventTexts == mood_radio_values \cup OtherMoodTexts

Event(op, text) == [op |-> op, text |-> text]

\* the session whose events the log records
Observed == 1

Overflow == <<Event("overflow", "")>>

Record(s, e) ==
    IF s = Observed /\ log # Overflow /\ Len(log) < MaxLog
    THEN Append(log, e)
    ELSE Overflow

(***************************************************************************)
(* Initial state: HomePage has created both signals with None.             *)
(***************************************************************************)
NoCall == [fn |-> "none", arg |-> <<>>, res |-> <<>>]

Init ==
    /\ trust = [s \in Sessions |-> None]
    /\ mood = [s \in Sessions |-> None]
    /\ log = <<>>
    /\ call = NoCall

(***************************************************************************)
(* Handlers of TrustInput and MoodInput.                                   *)
(***************************************************************************)
\* variant: one Trust signal is shared by all HomePage instances
trust_on_input_shared(s, text) ==
    /\ trust' = [o \in Sessions |-> ok(Trust_from_str(text))]
    /\ log' = Record(s, Event("trust_on_input", text))
    /\ UNCHANGED <<mood, call>>

\* variant: a text that does not parse is ignored and the cell keeps its value
trust_on_input_ignore(s, text) ==
    /\ trust' = [trust EXCEPT ![s] = IF Trust_from_str(text) = Err THEN trust[s]
                                     ELSE ok(Trust_from_str(text))]
    /\ log' = Record(s, Event("trust_on_input", text))
    /\ UNCHANGED <<mood, call>>

\* move |ev| *trust.write() = Trust::from_str(event_target_value(&ev).as_str()).ok()
trust_on_input(s, text) ==
    /\ trust' = [trust EXCEPT ![s] = ok(Trust_from_str(text))]
    /\ log' = Record(s, Event("trust_on_input", text))
    /\ UNCHANGED <<mood, call>>

\* variant: the clear button of Trust resets both cells
trust_clear_both(s) ==
    /\ trust' = [trust EXCEPT ![s] = None]
    /\ mood' = [mood EXCEPT ![s] = None]
    /\ log' = Record(s, Event("trust_clear", ""))
    /\ UNCHANGED call

\* move |_| *trust.write() = None
trust_clear(s) ==
    /\ trust' = [trust EXCEPT ![s] = None]
    /\ log' = Record(s, Event("trust_clear", ""))
    /\ UNCHANGED <<mood, call>>

\* variant: the handler parses the id of the radio ("mood_radio_Calm"), not its value
mood_on_input_parses_id(s, text) ==
    /\ mood' = [mood EXCEPT ![s] = ok(Mood_from_str("mood_radio_" \o text))]
    /\ log' = Record(s, Event("mood_on_input", text))
    /\ UNCHANGED <<trust, call>>

\* move |ev| *mood.write() = Mood::from_str(event_target_value(&ev).as_str()).ok()
mood_on_input(s, text) ==
    /\ mood' = [mood EXCEPT ![s] = ok(Mood_from_str(text))]
    /\ log' = Record(s, Event("mood_on_input", text))
    /\ UNCHANGED <<trust, call>>

\* variant: the clear button of Mood writes to the Trust cell as well
mood_clear_writes_trust(s) ==
    /\ mood' = [mood EXCEPT ![s] = None]
    /\ trust' = [trust EXCEPT ![s] = None]
    /\ log' = Record(s, Event("mood_clear", ""))
    /\ UNCHANGED call

\* variant: clear selects the first mood instead of unsetting the cell
mood_clear_first(s) ==
    /\ mood' = [mood EXCEPT ![s] = Some(Mood_01_Anguished)]
    /\ log' = Record(s, Event("mood_clear", ""))
    /\ UNCHANGED <<trust, call>>

\* move |_| *mood.write() = None
mood_clear(s) ==
    /\ mood' = [mood EXCEPT ![s] = None]
    /\ log' = Record(s, Event("mood_clear", ""))
    /\ UNCHANGED <<trust, call>>

TrustOnInput == \E s \in Sessions, text \in TrustEventTexts : trust_on_input(s, text)
TrustClear == \E s \in Sessions : trust_clear(s)
MoodOnInput == \E s \in Sessions, text \in MoodEventTexts : mood_on_input(s, text)
MoodClear == \E s \in Sessions : mood_clear(s)

Next ==
    \/ TrustOnInput
    \/ TrustClear
    \/ MoodOnInput
    \/ MoodClear

Spec == Init /\ [][Next]_vars

(***************************************************************************)
(* What the components render from the signals.  The closures of the view  *)
(* read the signals, so the rendered content is a function of the state.   *)
(***************************************************************************)
SUGGESTION_DIV_PLACEHOLDER_CLASSES == "opacity-75 italic select-none "

\* let placeholder_classes = move || { if suggestion.get().is_some() { .. } else { "hidden" } }
placeholder_classes(s) ==
    IF is_some(suggestion(s)) THEN SUGGESTION_DIV_PLACEHOLDER_CLASSES ELSE "hidden"

PlaceholderText ==
    "Please select if the person trusts you in this moment, and the mood they are in."

\* the match on suggestion.get() of SuggestionDiv: Either::Left shows the action and
\* one paragraph per part of the description, Either::Right the placeholder span
SuggestionDiv(s) ==
    IF is_some(suggestion(s))
    THEN [arm |-> "Left",
          action |-> Some(unwrap(suggestion(s)).action),
          description |-> Some(unwrap(suggestion(s)).description),
          span_class |-> None,
          span_text |-> None]
    ELSE [arm |-> "Right",
          action |-> None,
          description |-> None,
          span_class |-> Some(placeholder_classes(s)),
          span_text |-> Some(PlaceholderText)]

\* variant: the clear button is rendered in both arms of the match
TrustInput_view_clear_in_both_arms(s) ==
    IF is_some(trust[s])
    THEN [clear |-> TRUE, hint |-> None,
          description |-> Some(Trust_description(unwrap(trust[s])))]
    ELSE [clear |-> TRUE, hint |-> Some("select a value"), description |-> None]

\* the match on trust.get() of TrustInput
TrustInput_view(s) ==
    IF is_some(trust[s])
    THEN [clear |-> TRUE, hint |-> None,
          description |-> Some(Trust_description(unwrap(trust[s])))]
    ELSE [clear |-> FALSE, hint |-> Some("select a value"), description |-> None]

\* the match on mood.get() of MoodInput
MoodInput_view(s) ==
    IF is_some(mood[s])
    THEN [clear |-> TRUE, hint |-> None,
          symptoms |-> Some(Mood_symptoms(unwrap(mood[s]))),
          summary |-> Some(Mood_summary(unwrap(mood[s]))),
          description |-> Some(Mood_description(unwrap(mood[s])))]
    ELSE [clear |-> FALSE, hint |-> Some("select a value"),
          symptoms |-> None, summary |-> None, description |-> None]

(***************************************************************************)
(* The events the rendered page can emit: an input event of a radio        *)
(* carries the value property of that radio, and a click reaches the       *)
(* handler of a clear button only while the button is rendered.            *)
(***************************************************************************)
TrustRadioInput ==
    \E s \in Sessions, i \in 1..Len(Trust_iter) :
        trust_on_input(s, Trust_fmt(Trust_iter[i]))

\* <button on:click=trust_clear> of the arm Some(trust)
trust_clear_click(s) == TrustInput_view(s).clear /\ trust_clear(s)

TrustClearClick == \E s \in Sessions : trust_clear_click(s)

MoodRadioInput ==
    \E s \in Sessions, i \in 1..Len(Mood_iter) :
        mood_on_input(s, Mood_fmt(Mood_iter[i]))

\* <button on:click=mood_clear> of the arm Some(mood)
mood_clear_click(s) == MoodInput_view(s).clear /\ mood_clear(s)

MoodClearClick == \E s \in Sessions : mood_clear_click(s)

NextView ==
    \/ TrustRadioInput
    \/ TrustClearClick
    \/ MoodRadioInput
    \/ MoodClearClick

SpecView == Init /\ [][NextView]_vars

(***************************************************************************)
(* Direct calls of the enumeration functions, on inputs from bounded sets. *)
(***************************************************************************)
Texts ==
    trust_radio_values \cup mood_radio_values \cup
    { "", " ", "absent", "present", "ABSENT", "PRESENT", " Absent", "Absent ",
      "Present ", " Present", "Abs", "Pres", "Presen", "Absent\n",
      "hopeful", "HOPEFUL", "calm", "CALM", "anguished", "closed", "cautious",
      "unsettled", " Calm", "Calm ", "Hopeful ", " Hopeful", "Hope", "Cal",
      "Close", "Anguish", "Caution", "Unsettle", "Unsettled\n",
      "Trust::Absent", "Trust::Present", "Mood::_05_Calm", "_06_Hopeful",
      "1", "6", "true", "false" }

U8 == 0..MaxU8

Call(fn, arg, res) ==
    /\ call' = [fn |-> fn, arg |-> arg, res |-> res]
    /\ UNCHANGED <<trust, mood, log>>

CallTrustFmt == \E t \in Trust : Call("Trust::fmt", t, Trust_fmt(t))
CallTrustFromStr == \E s \in Texts : Call("Trust::from_str", s, Trust_from_str(s))
CallMoodFmt == \E m \in Mood : Call("Mood::fmt", m, Mood_fmt(m))
CallMoodFromStr == \E s \in Texts : Call("Mood::from_str", s, Mood_from_str(s))
CallMoodRank == \E m \in Mood : Call("Mood::rank", m, Mood_rank(m))
CallMoodTryFrom == \E n \in U8 : Call("Mood::try_from", n, Mood_try_from(n))

NextEnum ==
    \/ CallTrustFmt
    \/ CallTrustFromStr
    \/ CallMoodFmt
    \/ CallMoodFromStr
    \/ CallMoodRank
    \/ CallMoodTryFrom

SpecEnum == Init /\ [][NextEnum]_vars

(***************************************************************************)
(* Vocabulary of the properties.                                           *)
(***************************************************************************)
NoneSelected(s) == trust[s] = None /\ mood[s] = None
TrustOnly(s) == trust[s] # None /\ mood[s] = None
MoodOnly(s) == trust[s] = None /\ mood[s] # None
BothSelected(s) == trust[s] # None /\ mood[s] # None

\* setTrust(t) and setMood(m) are the input events of the radio of t and of m
SetTrust(t) == Event("trust_on_input", Trust_fmt(t))
SetMood(m) == Event("mood_on_input", Mood_fmt(m))
ClearTrust == Event("trust_clear", "")
ClearMood == Event("mood_clear", "")

InvalidTrustTexts == {text \in TrustEventTexts : Trust_from_str(text) = Err}
InvalidMoodTexts == {text \in MoodEventTexts : Mood_from_str(text) = Err}

TrustStep(s) == trust_clear(s) \/ \E text \in TrustEventTexts : trust_on_input(s, text)
MoodStep(s) == mood_clear(s) \/ \E text \in MoodEventTexts : mood_on_input(s, text)

(***************************************************************************)
(* C1  In every reachable state and every session, the current             *)
(* recommendation is 'none' if the Trust cell or the Mood cell is unset,   *)
(* and otherwise it is the table entry of the pair the two cells hold now. *)
(***************************************************************************)
C1_CurrentRecommendation ==
    \A s \in Sessions :
        IF trust[s] = None \/ mood[s] = None
        THEN suggestion(s) = None
        ELSE /\ <<unwrap(trust[s]), unwrap(mood[s])>> \in DOMAIN suggestions_map
             /\ suggestion(s) = Some(suggestions_map[<<unwrap(trust[s]), unwrap(mood[s])>>])

\* a pair was selected, then the mood changed: the entry is that of the new pair
C1_Witness ==
    /\ log = <<SetTrust(Trust_Absent), SetMood(Mood_05_Calm),
                    SetMood(Mood_06_Hopeful)>>
    /\ suggestion(Observed) = Some(suggestions_map[<<Trust_Absent, Mood_06_Hopeful>>])
    /\ suggestion(Observed) # Some(suggestions_map[<<Trust_Absent, Mood_05_Calm>>])

(***************************************************************************)
(* C2 (as stated)  An input event whose text is not a recognised display   *)
(* name leaves the targeted cell at the value it had before the event, and *)
(* the current recommendation does not change.                             *)
(***************************************************************************)
C2_InvalidInputLeavesCell ==
    [][\A s \in Sessions :
         /\ \A text \in InvalidTrustTexts :
              trust_on_input(s, text) =>
                  /\ trust'[s] = trust[s]
                  /\ suggestion(s)' = suggestion(s)
         /\ \A text \in InvalidMoodTexts :
              mood_on_input(s, text) =>
                  /\ mood'[s] = mood[s]
                  /\ suggestion(s)' = suggestion(s)]_vars

(***************************************************************************)
(* C2 (amended)  An input event whose text is not a recognised display     *)
(* name resets the targeted cell to unset, whatever it held before; the    *)
(* other cell and the other sessions keep their values, and the current    *)
(* recommendation of the session is 'none' afterwards.                     *)
(***************************************************************************)
C2_InvalidInputClearsCell ==
    [][\A s \in Sessions :
         /\ \A text \in InvalidTrustTexts :
              trust_on_input(s, text) =>
                  /\ trust'[s] = None
                  /\ \A o \in Sessions \ {s} : trust'[o] = trust[o]
                  /\ mood' = mood
                  /\ suggestion(s)' = None
         /\ \A text \in InvalidMoodTexts :
              mood_on_input(s, text) =>
                  /\ mood'[s] = None
                  /\ \A o \in Sessions \ {s} : mood'[o] = mood[o]
                  /\ trust' = trust
                  /\ suggestion(s)' = None]_vars

\* a set Trust cell has received an unrecognised text and is unset now
C2_Witness ==
    /\ log = <<SetTrust(Trust_Present), SetMood(Mood_05_Calm),
                    Event("trust_on_input", "present")>>
    /\ trust[Observed] = None
    /\ mood[Observed] = Some(Mood_05_Calm)

(***************************************************************************)
(* C3  The table built by suggestions_map has exactly one entry for each   *)
(* of the 12 (Trust, Mood) pairs and no other entry, every entry has a     *)
(* non-empty action and a non-empty description, and so has the            *)
(* recommendation of every session in which both cells are set.            *)
(***************************************************************************)
C3_TableComplete ==
    /\ DOMAIN suggestions_map = Trust \X Mood
    /\ Cardinality(DOMAIN suggestions_map) = 12
    /\ Len(suggestions_inserts) = 12
    /\ \A i, j \in 1..Len(suggestions_inserts) :
           suggestions_inserts[i][1] = suggestions_inserts[j][1] => i = j
    /\ \A k \in Trust \X Mood :
           /\ is_some(HashMap_get(suggestions_map, k))
           /\ unwrap(HashMap_get(suggestions_map, k)).action # ""
           /\ unwrap(HashMap_get(suggestions_map, k)).description # ""
    /\ \A s \in Sessions :
           BothSelected(s) =>
               /\ is_some(suggestion(s))
               /\ unwrap(suggestion(s)).action # ""
               /\ unwrap(suggestion(s)).description # ""

\* the first inserted pair is selected and looked up
C3_Witness ==
    /\ trust[Observed] = Some(Trust_Absent)
    /\ mood[Observed] = Some(Mood_01_Anguished)
    /\ is_some(suggestion(Observed))
    /\ unwrap(suggestion(Observed)).description # ""

(***************************************************************************)
(* C4  Every operation on one selection cell leaves the other cell         *)
(* unchanged: a Mood input event (valid or not) and a Mood clear never     *)
(* alter any Trust cell, a Trust input event and a Trust clear never alter *)
(* any Mood cell.                                                          *)
(***************************************************************************)
C4_OtherCellUnchanged ==
    [][\A s \in Sessions :
         /\ MoodStep(s) => trust' = trust
         /\ TrustStep(s) => mood' = mood]_vars

\* Trust is still set after a valid and an invalid input of Mood
C4_Witness ==
    /\ log = <<SetTrust(Trust_Present), SetMood(Mood_02_Closed),
                    Event("mood_on_input", "hopeful")>>
    /\ trust[Observed] = Some(Trust_Present)
    /\ mood[Observed] = None

(***************************************************************************)
(* C5  A session starts in NoneSelected; the recommendation is other than  *)
(* 'none' exactly in BothSelected; from BothSelected, clearTrust leads to  *)
(* MoodOnly with the Mood selection retained and clearMood leads to        *)
(* TrustOnly with the Trust selection retained.                            *)
(***************************************************************************)
C5_StateMachine ==
    /\ \A s \in Sessions : NoneSelected(s)
    /\ [](\A s \in Sessions : is_some(suggestion(s)) <=> BothSelected(s))
    /\ [][\A s \in Sessions :
            /\ (BothSelected(s) /\ trust_clear(s)) =>
                   (MoodOnly(s)' /\ mood'[s] = mood[s] /\ ~NoneSelected(s)')
            /\ (BothSelected(s) /\ mood_clear(s)) =>
                   (TrustOnly(s)' /\ trust'[s] = trust[s] /\ ~NoneSelected(s)')]_vars

\* Scenario D: Present and Hopeful selected, then Trust cleared
C5_Witness ==
    /\ log = <<SetTrust(Trust_Present), SetMood(Mood_06_Hopeful),
                    ClearTrust>>
    /\ MoodOnly(Observed)
    /\ mood[Observed] = Some(Mood_06_Hopeful)
    /\ suggestion(Observed) = None

(***************************************************************************)
(* C6  Clearing is idempotent: a clear leaves its cell unset, and a clear  *)
(* of a cell that is already unset changes no cell and no recommendation.  *)
(***************************************************************************)
C6_ClearIdempotent ==
    [][\A s \in Sessions :
         /\ trust_clear(s) => trust'[s] = None
         /\ mood_clear(s) => mood'[s] = None
         /\ (trust[s] = None /\ trust_clear(s)) =>
                /\ trust' = trust
                /\ mood' = mood
                /\ \A o \in Sessions : suggestion(o)' = suggestion(o)
         /\ (mood[s] = None /\ mood_clear(s)) =>
                /\ trust' = trust
                /\ mood' = mood
                /\ \A o \in Sessions : suggestion(o)' = suggestion(o)]_vars

\* Mood was set, then cleared twice
C6_Witness ==
    /\ log = <<SetMood(Mood_03_Cautious), ClearMood, ClearMood>>
    /\ mood[Observed] = None

(***************************************************************************)
(* C7  Text parsing of Trust and of Mood succeeds with value v if and only *)
(* if the text is exactly the display name of v: formatting a value and    *)
(* parsing the result gives the value back, and every other text fails.    *)
(***************************************************************************)
C7_ParseExact ==
    /\ call.fn = "Trust::fmt" => Trust_from_str(call.res) = Ok(call.arg)
    /\ call.fn = "Mood::fmt" => Mood_from_str(call.res) = Ok(call.arg)
    /\ call.fn = "Trust::from_str" =>
           /\ \A v \in Trust : call.res = Ok(v) <=> call.arg = Trust_fmt(v)
           /\ call.res = Err <=> call.arg \notin {"Absent", "Present"}
           /\ call.res # Err => call.res \in {Ok(v) : v \in Trust}
    /\ call.fn = "Mood::from_str" =>
           /\ \A v \in Mood : call.res = Ok(v) <=> call.arg = Mood_fmt(v)
           /\ call.res = Err <=>
                  call.arg \notin {"Anguished", "Closed", "Cautious",
                                   "Unsettled", "Calm", "Hopeful"}
           /\ call.res # Err => call.res \in {Ok(v) : v \in Mood}

\* a display name in another case has been parsed and rejected
C7_Witness ==
    /\ call.fn = "Trust::from_str"
    /\ call.arg = "present"
    /\ call.res = Err

(***************************************************************************)
(* C8  Mood rank is a bijection between the 6 Mood values and 1..6 that is *)
(* strictly increasing in declaration order; try_from(rank(m)) is m, and   *)
(* try_from(n) fails for every u8 n outside 1..6.                          *)
(***************************************************************************)
C8_RankBijection ==
    /\ call.fn = "Mood::rank" =>
           /\ call.res \in 1..6
           /\ Mood_try_from(call.res) = Ok(call.arg)
           /\ \A m \in Mood : Mood_rank(m) = call.res => m = call.arg
           /\ \A i \in 1..Len(Mood_iter) : Mood_iter[i] = call.arg => call.res = i
    /\ call.fn = "Mood::try_from" =>
           /\ call.arg \notin 1..6 => call.res = Err
           /\ call.arg \in 1..6 =>
                  \E m \in Mood : call.res = Ok(m) /\ Mood_rank(m) = call.arg
    /\ {Mood_rank(m) : m \in Mood} = 1..6
    /\ \A i, j \in 1..Len(Mood_iter) :
           i < j => Mood_rank(Mood_iter[i]) < Mood_rank(Mood_iter[j])

\* rank 7 has been parsed and rejected
C8_Witness ==
    /\ call.fn = "Mood::try_from"
    /\ call.arg = 7
    /\ call.res = Err

(***************************************************************************)
(* C9  From a fresh session, setTrust(Present) followed by                 *)
(* setMood(_06_Hopeful) makes the current recommendation the one with      *)
(* action "Enjoy yourselves."; after setTrust(Present) alone it is 'none'. *)
(***************************************************************************)
C9_ScenarioBC ==
    /\ log = <<SetTrust(Trust_Present)>> =>
           suggestion(Observed) = None
    /\ log = <<SetTrust(Trust_Present), SetMood(Mood_06_Hopeful)>> =>
           /\ is_some(suggestion(Observed))
           /\ unwrap(suggestion(Observed)).action = "Enjoy yourselves."

\* Scenario C has run
C9_Witness ==
    /\ log = <<SetTrust(Trust_Present), SetMood(Mood_06_Hopeful)>>
    /\ is_some(suggestion(Observed))
    /\ unwrap(suggestion(Observed)).action = "Enjoy yourselves."

(***************************************************************************)
(* C10  From a fresh session, setting Mood to the value parsed from rank 1 *)
(* and then Trust to Absent makes the current recommendation the one with  *)
(* action "Stay away", the same recommendation as in the other order.      *)
(***************************************************************************)
C10_ScenarioE ==
    LET m == unwrap(ok(Mood_try_from(1)))
        MoodThenTrust == <<SetMood(m), SetTrust(Trust_Absent)>>
        TrustThenMood == <<SetTrust(Trust_Absent), SetMood(m)>>
    IN  log \in {MoodThenTrust, TrustThenMood} =>
           /\ is_some(suggestion(Observed))
           /\ unwrap(suggestion(Observed)).action = "Stay away"
           /\ suggestion(Observed) =
                  HashMap_get(suggestions_map, <<Trust_Absent, Mood_01_Anguished>>)

\* Scenario E has run
C10_Witness ==
    /\ log = <<SetMood(Mood_01_Anguished), SetTrust(Trust_Absent)>>
    /\ trust[Observed] = Some(Trust_Absent)
    /\ mood[Observed] = Some(Mood_01_Anguished)
    /\ unwrap(suggestion(Observed)).action = "Stay away"

C12_NoTerminalState ==
    /\ ENABLED Next
    /\ \A s \in Sessions :
           /\ ENABLED TrustStep(s)
           /\ ENABLED MoodStep(s)
           /\ ENABLED (TrustStep(s) /\ (ENABLED (MoodStep(s) /\ NoneSelected(s)'))')
           /\ ENABLED (TrustStep(s) /\ (ENABLED (MoodStep(s) /\ TrustOnly(s)'))')
           /\ ENABLED (TrustStep(s) /\ (ENABLED (MoodStep(s) /\ MoodOnly(s)'))')
           /\ ENABLED (TrustStep(s) /\ (ENABLED (MoodStep(s) /\ BothSelected(s)'))')

\* BothSelected has been left by two clears and entered again
C12_Witness ==
    /\ log = Overflow
    /\ \A s \in Sessions : BothSelected(s)
    /\ ENABLED (TrustStep(Observed) /\
                (ENABLED (MoodStep(Observed) /\ NoneSelected(Observed)'))')

(***************************************************************************)
(* C14  Each session owns its cells and its derivation: no event of one    *)
(* session changes the Trust cell, the Mood cell or the current            *)
(* recommendation of another session, and every session looks its pair up  *)
(* in the same table contents.                                             *)
(***************************************************************************)
C14_SessionsIndependent ==
    /\ [][\A s \in Sessions :
              (TrustStep(s) \/ MoodStep(s)) =>
                  \A o \in Sessions \ {s} :
                      /\ trust'[o] = trust[o]
                      /\ mood'[o] = mood[o]
                      /\ suggestion(o)' = suggestion(o)]_vars
    /\ [](\A s \in Sessions :
              BothSelected(s) =>
                  suggestion(s) =
                      HashMap_get(suggestions_map, <<unwrap(trust[s]), unwrap(mood[s])>>))

\* two sessions hold different pairs and different recommendations
C14_Witness ==
    /\ NumSessions >= 2
    /\ trust[1] = Some(Trust_Present)
    /\ mood[1] = Some(Mood_06_Hopeful)
    /\ trust[2] = Some(Trust_Absent)
    /\ mood[2] = Some(Mood_01_Anguished)
    /\ unwrap(suggestion(1)).action = "Enjoy yourselves."
    /\ unwrap(suggestion(2)).action = "Stay away"

(***************************************************************************)
(* C15  Whenever the current recommendation is 'none', the suggestion      *)
(* panel shows the placeholder prompt with the placeholder styling and not *)
(* with the "hidden" class; whenever the recommendation is present, the    *)
(* action and the description are shown instead of the prompt.             *)
(***************************************************************************)
C15_PlaceholderVisible ==
    \A s \in Sessions :
        /\ suggestion(s) = None =>
               /\ SuggestionDiv(s).span_text = Some(PlaceholderText)
               /\ SuggestionDiv(s).span_class = Some(SUGGESTION_DIV_PLACEHOLDER_CLASSES)
               /\ SuggestionDiv(s).span_class # Some("hidden")
        /\ is_some(suggestion(s)) =>
               /\ SuggestionDiv(s).action = Some(unwrap(suggestion(s)).action)
               /\ SuggestionDiv(s).description = Some(unwrap(suggestion(s)).description)
               /\ SuggestionDiv(s).span_text = None

(***************************************************************************)
(* C16  In every reachable state and for each field, the clear control and *)
(* the metadata text of the field are rendered if and only if the cell of  *)
(* the field is set, the metadata shown is that of the value selected now, *)
(* and a click on clear can be emitted only for a cell that is set.        *)
(***************************************************************************)
C16_ControlsFollowCells ==
    /\   (\A s \in Sessions :
              /\ TrustInput_view(s).clear <=> is_some(trust[s])
              /\ is_some(TrustInput_view(s).description) <=> is_some(trust[s])
              /\ is_some(trust[s]) =>
                     TrustInput_view(s).description =
                         Some(Trust_description(unwrap(trust[s])))
              /\ MoodInput_view(s).clear <=> is_some(mood[s])
              /\ is_some(MoodInput_view(s).symptoms) <=> is_some(mood[s])
              /\ is_some(MoodInput_view(s).summary) <=> is_some(mood[s])
              /\ is_some(MoodInput_view(s).description) <=> is_some(mood[s])
              /\ is_some(mood[s]) =>
                     /\ MoodInput_view(s).symptoms = Some(Mood_symptoms(unwrap(mood[s])))
                     /\ MoodInput_view(s).summary = Some(Mood_summary(unwrap(mood[s])))
                     /\ MoodInput_view(s).description =
                            Some(Mood_description(unwrap(mood[s]))))
    /\ \A s \in Sessions :
           /\ (ENABLED trust_clear_click(s)) <=> is_some(trust[s])
           /\ (ENABLED mood_clear_click(s)) <=> is_some(mood[s])

\* Trust was cleared while Calm stays selected: its controls are gone, those of Mood stay
C16_Witness ==
    /\ log = <<SetTrust(Trust_Present), SetMood(Mood_05_Calm), ClearTrust>>
    /\ ~TrustInput_view(Observed).clear
    /\ TrustInput_view(Observed).description = None
    /\ MoodInput_view(Observed).clear
    /\ MoodInput_view(Observed).summary = Some("The person believes life is okay.")

=============================================================================
